---------------------------- MODULE Spec2Model ----------------------------
(***************************************************************************)
(* Model of github_activity.py: GitHubActivityFetcher.fetch_user_activity, *)
(* ActivityFormatter.format_activity and GitHubActivityCLI.run.            *)
(*                                                                         *)
(* A Python str is a sequence of chunks (TLA+ strings); where a method     *)
(* works on characters (strip, capitalize) every chunk is one character.   *)
(* A decoded JSON value is a record [k, s, n]: k is its kind ("absent" for *)
(* a key that is not in its dict), s its text when a str, n its value when *)
(* an int.  An event is flattened: repo/name and payload/action/size/      *)
(* ref_type are the values found along the paths the code reads.           *)
(***************************************************************************)
EXTENDS Integers, Sequences, FiniteSets, TLC

(***************************************************************************)
(* Bounds of the model.                                                    *)
(***************************************************************************)
MaxEvents == 12
MaxStrLen == 2
MaxUserLen == 3

(***************************************************************************)
(* Program constants.                                                      *)
(***************************************************************************)
EVENT_LIMIT == 10

BASE_URL == <<"https://api.github.com/users">>

FORMATTER_KEYS ==
    {"PushEvent", "IssuesEvent", "WatchEvent", "CreateEvent", "ForkEvent",
     "PullRequestEvent", "DeleteEvent", "ReleaseEvent", "PublicEvent"}

(***************************************************************************)
(* Generic helpers.                                                        *)
(***************************************************************************)
Min(a, b) == IF a <= b THEN a ELSE b

SeqsUpTo(S, n) == UNION {[1..m -> S] : m \in 0..n}

RECURSIVE Flatten(_)
Flatten(ss) == IF ss = <<>> THEN <<>> ELSE Head(ss) \o Flatten(Tail(ss))

\* sub occurs in s as a contiguous run of chunks
Contains(s, sub) ==
    \E i \in 0..(Len(s) - Len(sub)) : SubSeq(s, i + 1, i + Len(sub)) = sub

(***************************************************************************)
(* Python str and int primitives.                                          *)
(***************************************************************************)
DigitChar(d) ==
    CASE d = 0 -> "0" [] d = 1 -> "1" [] d = 2 -> "2" [] d = 3 -> "3"
      [] d = 4 -> "4" [] d = 5 -> "5" [] d = 6 -> "6" [] d = 7 -> "7"
      [] d = 8 -> "8" [] d = 9 -> "9"

\* str(n) of a non-negative int, one chunk per digit
RECURSIVE IntStr(_)
IntStr(n) == IF n < 10 THEN <<DigitChar(n)>>
             ELSE IntStr(n \div 10) \o <<DigitChar(n % 10)>>

Whitespace == {" ", "\t"}

RECURSIVE LStrip(_)
LStrip(s) == IF s # <<>> /\ Head(s) \in Whitespace THEN LStrip(Tail(s)) ELSE s

RECURSIVE RStrip(_)
RStrip(s) == IF s # <<>> /\ s[Len(s)] \in Whitespace
             THEN RStrip(SubSeq(s, 1, Len(s) - 1)) ELSE s

\* str.strip()
Strip(s) == RStrip(LStrip(s))

UpperChar(c) == CASE c = "o" -> "O" [] c = "a" -> "A" [] OTHER -> c

LowerChar(c) == CASE c = "O" -> "o" [] c = "A" -> "a" [] OTHER -> c

\* a capitalize that leaves the rest as it is
Capitalize_KeepRest(s) ==
    IF s = <<>> THEN <<>> ELSE <<UpperChar(s[1])>> \o SubSeq(s, 2, Len(s))

\* str.capitalize(): first character upper-cased, the rest LOWER-cased
Capitalize(s) ==
    IF s = <<>> THEN <<>>
    ELSE <<UpperChar(s[1])>> \o [i \in 1..(Len(s) - 1) |-> LowerChar(s[i + 1])]

(***************************************************************************)
(* Decoded JSON values.                                                    *)
(***************************************************************************)
Absent == [k |-> "absent", s |-> <<>>, n |-> 0]
Null == [k |-> "null", s |-> <<>>, n |-> 0]
StrV(s) == [k |-> "str", s |-> s, n |-> 0]
IntV(n) == [k |-> "int", s |-> <<>>, n |-> n]
ListV == [k |-> "list", s |-> <<>>, n |-> 0]
ObjV == [k |-> "obj", s |-> <<>>, n |-> 0]

\* str(v) as an f-string renders it
Render(v) ==
    CASE v.k = "str" -> v.s
      [] v.k = "int" -> IntStr(v.n)
      [] v.k = "null" -> <<"None">>
      [] v.k = "list" -> <<"[]">>
      [] v.k = "obj" -> <<"{..}">>

(***************************************************************************)
(* Results of evaluating a Python expression: a value or a raised class.   *)
(***************************************************************************)
Ok(v) == [err |-> "none", val |-> v]
Err(e) == [err |-> e, val |-> Absent]

\* r[key]: f is what the container holds under key
GetItem(r, f) ==
    IF r.err # "none" THEN r
    ELSE IF r.val.k = "obj"
         THEN IF f.k = "absent" THEN Err("KeyError") ELSE Ok(f)
         ELSE Err("TypeError")

\* r.get(key, default)
GetDefault(r, f, default) ==
    IF r.err # "none" THEN r
    ELSE IF r.val.k = "obj"
         THEN IF f.k = "absent" THEN Ok(default) ELSE Ok(f)
         ELSE Err("AttributeError")

\* r.capitalize()
CallCapitalize(r) ==
    IF r.err # "none" THEN r
    ELSE IF r.val.k = "str" THEN Ok(StrV(Capitalize(r.val.s)))
         ELSE Err("AttributeError")

\* f-string: the parts are evaluated left to right, the first error is raised
FString(parts) ==
    LET bad == SelectSeq(parts, LAMBDA p : p.err # "none")
    IN  IF bad # <<>> THEN Err(bad[1].err)
        ELSE Ok(StrV(Flatten([i \in 1..Len(parts) |-> Render(parts[i].val)])))

Lit(s) == Ok(StrV(<<s>>))


(***************************************************************************)
(* Events.                                                                 *)
(***************************************************************************)
Event(k, type, repo, name, payload, action, size, ref_type) ==
    [k |-> k, type |-> type, repo |-> repo, name |-> name,
     payload |-> payload, action |-> action, size |-> size,
     ref_type |-> ref_type]

\* the event itself, as the value the lambdas subscript
Self(event) == Ok([k |-> event.k, s |-> <<>>, n |-> 0])

RepoName(event) == GetItem(GetItem(Self(event), event.repo), event.name)

PayloadAction(event) ==
    CallCapitalize(GetItem(GetItem(Self(event), event.payload), event.action))

PayloadGet(event, f, default) ==
    GetDefault(GetItem(Self(event), event.payload), f, default)

\* ActivityFormatter.EVENT_FORMATTERS[key](event)
EVENT_FORMATTERS(key, event) ==
    CASE key = "PushEvent" ->
           FString(<<Lit("Pushed "), PayloadGet(event, event.size, IntV(0)),
                     Lit(" commit(s) to "), RepoName(event)>>)
      [] key = "IssuesEvent" ->
           FString(<<PayloadAction(event), Lit(" an issue in "),
                     RepoName(event)>>)
      [] key = "WatchEvent" ->
           FString(<<Lit("Starred "), RepoName(event)>>)
      [] key = "CreateEvent" ->
           FString(<<Lit("Created "),
                     PayloadGet(event, event.ref_type, StrV(<<"repository">>)),
                     Lit(" in "), RepoName(event)>>)
      [] key = "ForkEvent" ->
           FString(<<Lit("Forked "), RepoName(event)>>)
      [] key = "PullRequestEvent" ->
           FString(<<PayloadAction(event), Lit(" a pull request in "),
                     RepoName(event)>>)
      [] key = "DeleteEvent" ->
           FString(<<Lit("Deleted "),
                     PayloadGet(event, event.ref_type, StrV(<<"branch">>)),
                     Lit(" in "), RepoName(event)>>)
      [] key = "ReleaseEvent" ->
           FString(<<PayloadAction(event), Lit(" a release in "),
                     RepoName(event)>>)
      [] key = "PublicEvent" ->
           FString(<<Lit("Made "), RepoName(event), Lit(" public")>>)

\* `event_type in cls.EVENT_FORMATTERS`: hashing a list or a dict raises
InFormatters(type) ==
    IF type.k \in {"list", "obj"} THEN Err("TypeError")
    ELSE IF type.k = "str" /\ Len(type.s) = 1 /\ type.s[1] \in FORMATTER_KEYS
         THEN Ok(StrV(<<"yes">>))
         ELSE Ok(StrV(<<"no">>))

\* the except clause of the loop body
SkippedErrors == {"KeyError", "TypeError"}

\* the else branch: event.get('repo', {}).get('name', 'unknown repository')
FallbackLine(event, type) ==
    LET repo == GetDefault(Self(event), event.repo, ObjV)
        name == IF event.repo.k = "absent" THEN Absent ELSE event.name
    IN  FString(<<Lit("- "), Ok(type), Lit(" in "),
                  GetDefault(repo, name, StrV(<<"unknown repository">>))>>)

\* one iteration of the loop of format_activity:
\* [do |-> "append" | "skip" | "raise", line, err]
FormatEvent(event) ==
    LET type == GetDefault(Self(event), event.type, Null)
        known == IF type.err # "none" THEN type ELSE InFormatters(type.val)
        Raise(e) == [do |-> "raise", line |-> <<>>, err |-> e]
        Emit(l) == [do |-> "append", line |-> l, err |-> "none"]
    IN  IF known.err # "none" THEN Raise(known.err)
        ELSE IF known.val.s = <<"yes">>
        THEN LET text == EVENT_FORMATTERS(type.val.s[1], event)
             IN  IF text.err \in SkippedErrors
                 THEN [do |-> "skip", line |-> <<>>, err |-> "none"]
                 ELSE IF text.err # "none" THEN Raise(text.err)
                 ELSE Emit(<<"- ">> \o text.val.s)
        ELSE LET line == FallbackLine(event, type.val)
             IN  IF line.err # "none" THEN Raise(line.err)
                 ELSE Emit(line.val.s)

\* a slice that is one too long
Window_OffByOne(events) == SubSeq(events, 1, Min(EVENT_LIMIT + 1, Len(events)))

\* events[:10]
Window(events) == SubSeq(events, 1, Min(EVENT_LIMIT, Len(events)))

(***************************************************************************)
(* Exceptions.                                                             *)
(***************************************************************************)
Parent(c) ==
    CASE c = "HTTPError" -> "URLError"
      [] c = "URLError" -> "OSError"
      [] c = "ConnectionError" -> "OSError"
      [] c = "TimeoutError" -> "OSError"
      [] c = "JSONDecodeError" -> "ValueError"
      [] c = "UnicodeDecodeError" -> "ValueError"
      [] OTHER -> "Exception"

RECURSIVE IsInstance(_, _)
IsInstance(c, d) ==
    IF c = d THEN TRUE
    ELSE IF c = "Exception" THEN FALSE
    ELSE IsInstance(Parent(c), d)

\* origin: "fetcher" for an exception a raise statement of the fetcher made,
\* "library" for one that urllib, the socket or the codec raised
Exc(cls, origin, msg, code) ==
    [cls |-> cls, origin |-> origin, msg |-> msg, code |-> code]

NoExc == Exc("none", "none", <<>>, 0)

(***************************************************************************)
(* GitHubActivityFetcher.fetch_user_activity, piece by piece.              *)
(***************************************************************************)
\* a check that forgets strip()
UsernameInvalid_NoStrip(u) == u = <<>>

\* `not username or not username.strip()`
UsernameInvalid(u) == u = <<>> \/ Strip(u) = <<>>

\* f"{self.BASE_URL}/{username}/events"
RequestUrl(u) == BASE_URL \o <<"/">> \o u \o <<"/events">>

\* the raise of the else branch under `with`
StatusError(status) ==
    Exc("ConnectionError", "fetcher",
        <<"API returned status code: ">> \o IntStr(status), status)

\* except clauses whose HTTPError clause has lost its 404 and 403 branches
ExceptClauses_NoStatusBranch(e, u) ==
    IF IsInstance(e.cls, "HTTPError")
    THEN Exc("ConnectionError", "fetcher",
             <<"HTTP error ">> \o IntStr(e.code) \o <<": ">> \o e.msg, e.code)
    ELSE IF IsInstance(e.cls, "URLError")
    THEN Exc("ConnectionError", "fetcher", <<"Network error: ">> \o e.msg, 0)
    ELSE IF IsInstance(e.cls, "JSONDecodeError")
    THEN Exc("ConnectionError", "fetcher",
             <<"Invalid response from GitHub API">>, 0)
    ELSE e

\* the except clauses of the try block, in order; e is what the block raised
ExceptClauses(e, u) ==
    IF IsInstance(e.cls, "HTTPError")
    THEN IF e.code = 404
         THEN Exc("ValueError", "fetcher",
                  <<"User '">> \o u \o <<"' not found">>, e.code)
         ELSE IF e.code = 403
         THEN Exc("ConnectionError", "fetcher",
                  <<"API rate limit exceeded. Please try again later.">>,
                  e.code)
         ELSE Exc("ConnectionError", "fetcher",
                  <<"HTTP error ">> \o IntStr(e.code) \o <<": ">> \o e.msg,
                  e.code)
    ELSE IF IsInstance(e.cls, "URLError")
    THEN Exc("ConnectionError", "fetcher", <<"Network error: ">> \o e.msg, 0)
    ELSE IF IsInstance(e.cls, "JSONDecodeError")
    THEN Exc("ConnectionError", "fetcher",
             <<"Invalid response from GitHub API">>, 0)
    ELSE e

\* json.loads(response.read().decode('utf-8')): each stage may raise
ReadBody(body) ==
    IF ~body.readable
    THEN [err |-> Exc("TimeoutError", "library", <<"timed out">>, 0),
          data |-> <<>>]
    ELSE IF ~body.utf8
    THEN [err |-> Exc("UnicodeDecodeError", "library", <<"invalid byte">>, 0),
          data |-> <<>>]
    ELSE IF ~body.json
    THEN [err |-> Exc("JSONDecodeError", "library", <<"Expecting value">>, 0),
          data |-> <<>>]
    ELSE [err |-> NoExc, data |-> body.data]

(***************************************************************************)
(* GitHubActivityCLI.run: the text printed for a caught exception.         *)
(***************************************************************************)
CliExcept(e) ==
    IF IsInstance(e.cls, "ValueError") THEN <<"Error: ">> \o e.msg
    ELSE IF IsInstance(e.cls, "ConnectionError")
    THEN <<"Connection Error: ">> \o e.msg
    ELSE <<"Unexpected error: ">> \o e.msg

(***************************************************************************)
(* Inputs.                                                                 *)
(***************************************************************************)
UserChars == {" ", "\t", "a"}
Usernames == SeqsUpTo(UserChars, MaxUserLen)

ArgLists == {<<>>} \cup {<<u>> : u \in Usernames}
                   \cup {<<u, <<"a">>>> : u \in Usernames}

ActionChars == {"o", "O", "1"}
ActionVals == {Absent, Null, IntV(5)}
                  \cup {StrV(a) : a \in SeqsUpTo(ActionChars, MaxStrLen)}

TypeVals == {Absent, Null, ListV}
                \cup {StrV(<<t>>) : t \in FORMATTER_KEYS \cup {"GollumEvent"}}

\* <<repo, repo.name>>
RepoShapes ==
    {<<r, Absent>> : r \in {Absent, Null, StrV(<<"x">>), ListV}}
        \cup {<<ObjV, nm>> : nm \in {Absent, Null, StrV(<<"a/b">>)}}

\* <<payload, payload.action, payload.size, payload.ref_type>>
PayloadShapes ==
    {<<p, Absent, Absent, Absent>> : p \in {Absent, Null, StrV(<<"x">>)}}
        \cup {<<ObjV, a, sz, rt>> : a \in ActionVals, sz \in {Absent, IntV(3)},
                                   rt \in {Absent, StrV(<<"tag">>)}}

\* every shape of one event (a JSON object) of the decoded list
EventDomain ==
    {Event("obj", t, r[1], r[2], p[1], p[2], p[3], p[4]) :
        t \in TypeVals, r \in RepoShapes, p \in PayloadShapes}

\* a well-formed PushEvent whose payload.size tells its position
GoodPush(i) ==
    Event("obj", StrV(<<"PushEvent">>), ObjV, StrV(<<"a/b">>), ObjV, Absent,
          IntV(i), Absent)

\* a PushEvent without payload
BadPush ==
    Event("obj", StrV(<<"PushEvent">>), ObjV, StrV(<<"a/b">>), Absent, Absent,
          Absent, Absent)

LongLists ==
    UNION {{[i \in 1..n |-> IF i \in bad THEN BadPush ELSE GoodPush(i)] :
              bad \in SUBSET (1..n)} : n \in 0..MaxEvents}

ShortLists ==
    {<<e>> : e \in EventDomain} \cup {<<e, GoodPush(2)>> : e \in EventDomain}

FormatInputs == LongLists \cup ShortLists

ResponseData ==
    {<<>>, <<GoodPush(1)>>, <<BadPush>>, <<BadPush, GoodPush(2)>>,
     <<Event("obj", StrV(<<"IssuesEvent">>), ObjV, StrV(<<"a/b">>), ObjV,
             IntV(5), Absent, Absent)>>}

Body(readable, utf8, json, data) ==
    [readable |-> readable, utf8 |-> utf8, json |-> json, data |-> data]

NoBody == Body(FALSE, FALSE, FALSE, <<>>)

Bodies ==
    {Body(FALSE, TRUE, TRUE, <<>>), Body(TRUE, FALSE, TRUE, <<>>),
     Body(TRUE, TRUE, FALSE, <<>>)}
        \cup {Body(TRUE, TRUE, TRUE, d) : d \in ResponseData}

\* statuses urlopen raises HTTPError for, and statuses it returns
ErrorStatuses == {304, 400, 403, 404, 500, 503}
ReturnedStatuses == {200, 201, 204}

Outcome(kind, status, reason, body) ==
    [kind |-> kind, status |-> status, reason |-> reason, body |-> body]

NoResponse == Outcome("none", 0, <<>>, NoBody)

\* what urlopen can do
NetOutcomes ==
    {Outcome("HTTPError", c, <<"reason">>, NoBody) : c \in ErrorStatuses}
        \cup {Outcome("URLError", 0, <<"timed out">>, NoBody)}
        \cup {Outcome("response", 200, <<"OK">>, b) : b \in Bodies}
        \cup {Outcome("response", c, <<"OK">>, NoBody) :
                c \in ReturnedStatuses \ {200}}

(***************************************************************************)
(* State.                                                                  *)
(***************************************************************************)
VARIABLES
    mode,                  \* who is called: "cli", "fetch" or "format"
    pc,                    \* position in the code
    args,                  \* run(args)
    username,              \* fetch_user_activity(username)
    url,                   \* the URL of the request
    fetchCalls,            \* calls of fetch_user_activity
    netCalls,              \* calls of urlopen
    response,              \* what urlopen returned or raised
    fetch_result,          \* "none", "return" or "raise"
    data,                  \* the list fetch_user_activity returned
    exc,                   \* the exception in flight
    events,                \* format_activity(events)
    window,                \* events[:10]
    idx,                   \* position of the loop in window
    formatted_activities,  \* the list format_activity builds
    format_result,         \* "none", "return" or "raise"
    stdout,                \* the lines printed
    exit_code              \* what run returned, -1 before

vars == <<mode, pc, args, username, url, fetchCalls, netCalls, response,
          fetch_result, data, exc, events, window, idx, formatted_activities,
          format_result, stdout, exit_code>>

fetchVars == <<username, url, fetchCalls, netCalls, response, fetch_result,
               data>>
formatVars == <<events, window, idx, formatted_activities, format_result>>
cliVars == <<stdout, exit_code>>

Init ==
    /\ mode \in {"cli", "fetch", "format"}
    /\ pc = CASE mode = "cli" -> "cli_run"
              [] mode = "fetch" -> "fetch_validate"
              [] mode = "format" -> "format_begin"
    /\ args \in IF mode = "cli" THEN ArgLists ELSE {<<>>}
    /\ username \in IF mode = "fetch" THEN Usernames ELSE {<<>>}
    /\ events \in IF mode = "format" THEN FormatInputs ELSE {<<>>}
    /\ url = <<>>
    /\ fetchCalls = 0
    /\ netCalls = 0
    /\ response = NoResponse
    /\ fetch_result = "none"
    /\ data = <<>>
    /\ exc = NoExc
    /\ window = <<>>
    /\ idx = 0
    /\ formatted_activities = <<>>
    /\ format_result = "none"
    /\ stdout = <<>>
    /\ exit_code = -1

(***************************************************************************)
(* fetch_user_activity                                                     *)
(***************************************************************************)
FetchRaise(e) ==
    /\ exc' = e
    /\ fetch_result' = "raise"
    /\ pc' = "fetch_exit"

\* lines 39-42: the username check and the URL
FetchValidate ==
    /\ pc = "fetch_validate"
    /\ fetchCalls' = fetchCalls + 1
    /\ IF UsernameInvalid(username)
       THEN /\ FetchRaise(Exc("ValueError", "fetcher",
                              <<"Username cannot be empty">>, 0))
            /\ url' = url
       ELSE /\ url' = RequestUrl(username)
            /\ pc' = "fetch_urlopen"
            /\ UNCHANGED <<exc, fetch_result>>
    /\ UNCHANGED <<mode, args, username, netCalls, response, data>>
    /\ UNCHANGED <<formatVars, cliVars>>

\* a request that is sent again, once, when urlopen raises
FetchUrlopen_Retry ==
    /\ pc = "fetch_urlopen"
    /\ netCalls' = netCalls + 1
    /\ \E o \in NetOutcomes :
         /\ response' = o
         /\ IF o.kind = "response"
            THEN IF o.status = 200
                 THEN /\ pc' = "fetch_read"
                      /\ UNCHANGED <<exc, fetch_result>>
                 ELSE FetchRaise(ExceptClauses(StatusError(o.status), username))
            ELSE IF netCalls = 0
                 THEN UNCHANGED <<pc, exc, fetch_result>>
                 ELSE FetchRaise(ExceptClauses(
                          Exc(o.kind, "library", o.reason, o.status), username))
    /\ UNCHANGED <<mode, args, username, url, fetchCalls, data>>
    /\ UNCHANGED <<formatVars, cliVars>>

\* lines 45-48, 51-52: the request, and the status of the response
FetchUrlopen ==
    /\ pc = "fetch_urlopen"
    /\ netCalls' = netCalls + 1
    /\ \E o \in NetOutcomes :
         /\ response' = o
         /\ IF o.kind = "response"
            THEN IF o.status = 200
                 THEN /\ pc' = "fetch_read"
                      /\ UNCHANGED <<exc, fetch_result>>
                 ELSE FetchRaise(ExceptClauses(StatusError(o.status), username))
            ELSE FetchRaise(ExceptClauses(
                     Exc(o.kind, "library", o.reason, o.status), username))
    /\ UNCHANGED <<mode, args, username, url, fetchCalls, data>>
    /\ UNCHANGED <<formatVars, cliVars>>

\* lines 49-50: the body
FetchRead ==
    /\ pc = "fetch_read"
    /\ LET r == ReadBody(response.body)
       IN  IF r.err # NoExc
           THEN /\ FetchRaise(ExceptClauses(r.err, username))
                /\ data' = data
           ELSE /\ data' = r.data
                /\ fetch_result' = "return"
                /\ pc' = "fetch_exit"
                /\ exc' = exc
    /\ UNCHANGED <<mode, args, username, url, fetchCalls, netCalls, response>>
    /\ UNCHANGED <<formatVars, cliVars>>

(***************************************************************************)
(* format_activity                                                         *)
(***************************************************************************)
\* lines 97, 99: the empty list and the slice
FormatBegin ==
    /\ pc = "format_begin"
    /\ window' = Window(events)
    /\ formatted_activities' = <<>>
    /\ idx' = 1
    /\ pc' = "format_loop"
    /\ UNCHANGED <<mode, args, exc, events, format_result>>
    /\ UNCHANGED <<fetchVars, cliVars>>

\* lines 100-112: one iteration
FormatIterate ==
    /\ pc = "format_loop"
    /\ idx <= Len(window)
    /\ LET r == FormatEvent(window[idx])
       IN  IF r.do = "raise"
           THEN /\ exc' = Exc(r.err, "library", <<"bad event">>, 0)
                /\ format_result' = "raise"
                /\ pc' = "format_exit"
                /\ UNCHANGED <<idx, formatted_activities>>
           ELSE /\ formatted_activities' =
                     IF r.do = "append"
                     THEN Append(formatted_activities, r.line)
                     ELSE formatted_activities
                /\ idx' = idx + 1
                /\ UNCHANGED <<exc, format_result, pc>>
    /\ UNCHANGED <<mode, args, events, window>>
    /\ UNCHANGED <<fetchVars, cliVars>>

\* line 114
FormatReturn ==
    /\ pc = "format_loop"
    /\ idx > Len(window)
    /\ format_result' = "return"
    /\ pc' = "format_exit"
    /\ UNCHANGED <<mode, args, exc, events, window, idx, formatted_activities>>
    /\ UNCHANGED <<fetchVars, cliVars>>

(***************************************************************************)
(* GitHubActivityCLI.run                                                   *)
(***************************************************************************)
CliExit(lines, code) ==
    /\ stdout' = stdout \o lines
    /\ exit_code' = code
    /\ pc' = "done"

\* lines 136-148: the argument check, up to the call of the fetcher
CliRun ==
    /\ pc = "cli_run"
    /\ IF Len(args) # 1
       THEN /\ CliExit(<<<<"Error: Please provide exactly one GitHub username.">>,
                         <<"Usage: python github_activity.py <username>">>,
                         <<"Example: python github_activity.py kamranahmedse">>>>,
                       1)
            /\ UNCHANGED username
       ELSE /\ username' = Strip(args[1])
            /\ stdout' = <<<<"Fetching activity for GitHub user: ">>
                             \o Strip(args[1]),
                           <<"--------------------------------------------------">>>>
            /\ pc' = "fetch_validate"
            /\ UNCHANGED exit_code
    /\ UNCHANGED <<mode, args, exc, url, fetchCalls, netCalls, response,
                   fetch_result, data>>
    /\ UNCHANGED formatVars

\* lines 148-152, 166-176: back from the fetcher
CliAfterFetch ==
    /\ mode = "cli"
    /\ pc = "fetch_exit"
    /\ IF fetch_result = "raise"
       THEN /\ CliExit(<<CliExcept(exc)>>, 1)
            /\ UNCHANGED events
       ELSE /\ events' = data
            /\ IF data = <<>>
               THEN CliExit(<<<<"No recent activity found for user '">>
                               \o username \o <<"'">>>>, 0)
               ELSE /\ pc' = "format_begin"
                    /\ UNCHANGED cliVars
    /\ UNCHANGED <<mode, args, exc, window, idx, formatted_activities,
                   format_result>>
    /\ UNCHANGED fetchVars

\* lines 155-164, 174-176: back from the formatter
CliAfterFormat ==
    /\ mode = "cli"
    /\ pc = "format_exit"
    /\ IF format_result = "raise"
       THEN CliExit(<<CliExcept(exc)>>, 1)
       ELSE IF formatted_activities # <<>>
       THEN CliExit(<<<<"Recent Activity:">>>> \o formatted_activities, 0)
       ELSE CliExit(<<<<"No displayable activity found for user '">>
                       \o username \o <<"'">>>>, 0)
    /\ UNCHANGED <<mode, args, exc>>
    /\ UNCHANGED <<fetchVars, formatVars>>

Next ==
    \/ FetchValidate
    \/ FetchUrlopen
    \/ FetchRead
    \/ FormatBegin
    \/ FormatIterate
    \/ FormatReturn
    \/ CliRun
    \/ CliAfterFetch
    \/ CliAfterFormat

Spec == Init /\ [][Next]_vars

(***************************************************************************)
(* Vocabulary of the properties.                                           *)
(***************************************************************************)
Blank(u) == \A i \in 1..Len(u) : u[i] \in {" ", "\t"}

FetchCalled == fetchCalls > 0

FetchEnded == fetch_result # "none"

\* the lines of a list of events that format without raising, in order
RECURSIVE LinesOf(_)
LinesOf(evs) ==
    IF evs = <<>> THEN <<>>
    ELSE LET r == FormatEvent(Head(evs))
         IN  (IF r.do = "append" THEN <<r.line>> ELSE <<>>) \o LinesOf(Tail(evs))

\* the line of the well-formed PushEvent at position i
PushLine(i) == <<"- ", "Pushed ">> \o IntStr(i) \o <<" commit(s) to ", "a/b">>

Lines == {formatted_activities[i] : i \in 1..Len(formatted_activities)}

TypeKnown(e) ==
    e.k = "obj" /\ e.type.k = "str" /\ e.type.s[1] \in FORMATTER_KEYS

ActionTypes == {"IssuesEvent", "PullRequestEvent", "ReleaseEvent"}
PayloadTypes == ActionTypes \cup {"PushEvent", "CreateEvent", "DeleteEvent"}

\* a field the template of e reads without a default is missing
RequiredMissing(e) ==
    \/ e.repo.k = "absent"
    \/ e.name.k = "absent"
    \/ e.type.s[1] \in PayloadTypes /\ e.payload.k = "absent"
    \/ e.type.s[1] \in ActionTypes /\ e.action.k = "absent"

ActionSuffix(t) ==
    CASE t = "IssuesEvent" -> " an issue in "
      [] t = "PullRequestEvent" -> " a pull request in "
      [] t = "ReleaseEvent" -> " a release in "

\* an event of one of the three action types whose fields are all strings
ActionEvent(e) ==
    /\ TypeKnown(e)
    /\ e.type.s[1] \in ActionTypes
    /\ e.payload.k = "obj" /\ e.action.k = "str"
    /\ e.repo.k = "obj" /\ e.name.k = "str"

\* the loop is about to handle window[idx]
AtEvent == pc = "format_loop" /\ idx <= Len(window)

\* the step handled window[idx] without appending a line and went on
SkipStep == idx' = idx + 1 /\ formatted_activities' = formatted_activities

\* the step appended line and went on
AppendStep(line) ==
    idx' = idx + 1 /\ formatted_activities' = Append(formatted_activities, line)

\* '- <type> in <repo.name or "unknown repository">'
ExpectedFallback(e) ==
    <<"- ">> \o Render(IF e.type.k = "absent" THEN Null ELSE e.type)
        \o <<" in ">>
        \o (IF e.name.k = "absent" THEN <<"unknown repository">>
            ELSE Render(e.name))

\* the line of a template whose size or ref_type is missing, up to the repo
DefaultLine(t) ==
    CASE t = "PushEvent" -> <<"- ", "Pushed ", "0", " commit(s) to ">>
      [] t = "CreateEvent" -> <<"- ", "Created ", "repository", " in ">>
      [] t = "DeleteEvent" -> <<"- ", "Deleted ", "branch", " in ">>

(***************************************************************************)
(* C1: format_activity truncates before it filters.  The list never has    *)
(* more than min(10, len(events)) lines; when format_activity returns, its *)
(* lines are those of the first 10 events, in order; well-formed events    *)
(* only yield exactly the lines of events 1..min(10, len), and an event at *)
(* position 11 or later contributes no line.                               *)
(***************************************************************************)
C1_TruncateBeforeFilter ==
    /\ Len(formatted_activities) <= Min(10, Len(events))
    /\ format_result = "return" =>
         /\ formatted_activities =
                LinesOf(SubSeq(events, 1, Min(10, Len(events))))
         /\ (\A i \in 1..Len(events) : events[i] = GoodPush(i)) =>
                formatted_activities =
                    [i \in 1..Min(10, Len(events)) |-> PushLine(i)]
         /\ \A j \in 11..Len(events) :
                events[j] = GoodPush(j) => PushLine(j) \notin Lines

\* more than ten events, one of the first ten skipped, the eleventh fine
C1_Witness ==
    /\ format_result = "return"
    /\ Len(events) > 10
    /\ events[11] = GoodPush(11)
    /\ \E i \in 1..10 : events[i] = BadPush
    /\ Len(formatted_activities) < 10

(***************************************************************************)
(* C2: the formatter never raises: whatever the shapes of the events,      *)
(* format_activity returns a list of lines.                                *)
(***************************************************************************)
C2_FormatterNeverRaises == format_result # "raise"

(***************************************************************************)
(* C3: fetch_user_activity returns, or fails with a ValueError or a        *)
(* ConnectionError; no exception of the transport escapes as it was        *)
(* raised.                                                                 *)
(***************************************************************************)
C3_FetchOutcomesClassified ==
    fetch_result = "raise" =>
        /\ IsInstance(exc.cls, "ValueError")
             \/ IsInstance(exc.cls, "ConnectionError")
        /\ ~(exc.origin = "library" /\ IsInstance(exc.cls, "OSError"))

(***************************************************************************)
(* C4: called with an empty or all-whitespace username,                    *)
(* fetch_user_activity raises ValueError('Username cannot be empty') and   *)
(* urlopen has not been called.                                            *)
(***************************************************************************)
C4_BlankUsernameRejected ==
    (FetchCalled /\ Blank(username)) =>
        /\ fetch_result = "raise"
        /\ exc.cls = "ValueError"
        /\ exc.msg = <<"Username cannot be empty">>
        /\ netCalls = 0
        /\ url = <<>>

\* a username of whitespace only has been rejected
C4_Witness ==
    /\ FetchCalled
    /\ Len(username) > 1
    /\ Blank(username)
    /\ fetch_result = "raise"

(***************************************************************************)
(* C5: the status decides the error: 404 gives a ValueError whose message  *)
(* contains the username, 403 a ConnectionError about the rate limit, any  *)
(* other status than 200 a ConnectionError whose message carries the       *)
(* status, and never a ValueError.                                         *)
(***************************************************************************)
C5_StatusDecidesError ==
    (FetchEnded /\ response.kind \in {"HTTPError", "response"}) =>
        /\ response.status = 404 =>
             /\ fetch_result = "raise"
             /\ exc.cls = "ValueError"
             /\ exc.origin = "fetcher"
             /\ Contains(exc.msg, username)
             /\ Contains(exc.msg, <<"' not found">>)
        /\ response.status = 403 =>
             /\ fetch_result = "raise"
             /\ exc.cls = "ConnectionError"
             /\ exc.origin = "fetcher"
             /\ exc.msg = <<"API rate limit exceeded. Please try again later.">>
        /\ response.status \notin {200, 403, 404} =>
             /\ fetch_result = "raise"
             /\ exc.cls = "ConnectionError"
             /\ exc.origin = "fetcher"
             /\ ~IsInstance(exc.cls, "ValueError")
             /\ Contains(exc.msg, IntStr(response.status))

\* a status urlopen does not raise for, and that is not 200
C5_Witness ==
    /\ FetchEnded
    /\ response.kind = "response"
    /\ response.status = 204
    /\ exc.cls = "ConnectionError"

(***************************************************************************)
(* C6: a 200 response whose body does not parse as JSON, malformed JSON or *)
(* not UTF-8, makes fetch_user_activity raise the ConnectionError 'Invalid *)
(* response', never a ValueError or an exception of another class.         *)
(***************************************************************************)
C6_UnparsableBodyIsConnectionError ==
    (/\ FetchEnded
     /\ response.kind = "response"
     /\ response.status = 200
     /\ response.body.readable
     /\ ~(response.body.utf8 /\ response.body.json)) =>
        /\ fetch_result = "raise"
        /\ exc.cls = "ConnectionError"
        /\ exc.origin = "fetcher"
        /\ exc.msg = <<"Invalid response from GitHub API">>

(***************************************************************************)
(* C7: a call of fetch_user_activity that passes the username check calls  *)
(* urlopen exactly once, whatever the outcome, never a second time, and    *)
(* one run of the CLI calls fetch_user_activity at most once.              *)
(***************************************************************************)
C7_OneNetworkCall ==
    /\ netCalls <= 1
    /\ fetchCalls <= 1
    /\ (FetchEnded /\ ~Blank(username)) => netCalls = 1
    /\ pc = "fetch_read" => netCalls = 1

\* the CLI has finished after a network error
C7_Witness ==
    /\ mode = "cli"
    /\ pc = "done"
    /\ response.kind = "URLError"
    /\ fetch_result = "raise"
    /\ netCalls = 1

(***************************************************************************)
(* C8, as stated: in the line of an IssuesEvent, PullRequestEvent or       *)
(* ReleaseEvent the action has its first character upper-cased and every   *)
(* other character unchanged.                                              *)
(***************************************************************************)
C8_CapitalizeKeepsRest ==
    [][(AtEvent /\ ActionEvent(window[idx])) =>
          LET e == window[idx]
              a == e.action.s
          IN  AppendStep(<<"- ">>
                  \o (IF a = <<>> THEN <<>>
                      ELSE <<UpperChar(a[1])>> \o SubSeq(a, 2, Len(a)))
                  \o <<ActionSuffix(e.type.s[1])>> \o e.name.s)]_vars

(***************************************************************************)
(* C8, amended: the action has its first character upper-cased and every   *)
(* other character lower-cased.                                            *)
(***************************************************************************)
C8_CapitalizeLowersRest ==
    [][(AtEvent /\ ActionEvent(window[idx])) =>
          LET e == window[idx]
              a == e.action.s
          IN  AppendStep(<<"- ">>
                  \o [i \in 1..Len(a) |->
                        IF i = 1 THEN UpperChar(a[i]) ELSE LowerChar(a[i])]
                  \o <<ActionSuffix(e.type.s[1])>> \o e.name.s)]_vars

\* the line of an action with an upper-case character after the first
C8_Witness ==
    /\ mode = "format"
    /\ Len(events) = 1
    /\ ActionEvent(events[1])
    /\ events[1].action.s = <<"o", "O">>
    /\ formatted_activities =
           <<<<"- ", "O", "o", ActionSuffix(events[1].type.s[1]), "a/b">>>>

(***************************************************************************)
(* C9: an event of the window is skipped exactly when its type is one of   *)
(* the nine keys and a field its template reads without a default is       *)
(* missing; a missing size or ref_type is rendered as its default; an      *)
(* event of another type always yields the fallback line.                  *)
(***************************************************************************)
C9_SkipExactlyWhenRequiredMissing ==
    [][AtEvent =>
          LET e == window[idx]
              t == e.type.s[1]
          IN  /\ SkipStep <=> (TypeKnown(e) /\ RequiredMissing(e))
              /\ ~TypeKnown(e) => AppendStep(ExpectedFallback(e))
              /\ (/\ TypeKnown(e)
                  /\ t \in {"PushEvent", "CreateEvent", "DeleteEvent"}
                  /\ ~RequiredMissing(e)
                  /\ e.size.k = "absent"
                  /\ e.ref_type.k = "absent") =>
                    AppendStep(DefaultLine(t) \o Render(e.name))]_vars

(***************************************************************************)
(* The rule of C9 holds of every step of the loop that does not raise.     *)
(***************************************************************************)
SkipRuleUnlessRaise ==
    [][(AtEvent /\ format_result' # "raise") =>
          LET e == window[idx]
              t == e.type.s[1]
          IN  /\ SkipStep <=> (TypeKnown(e) /\ RequiredMissing(e))
              /\ ~TypeKnown(e) => AppendStep(ExpectedFallback(e))
              /\ (/\ TypeKnown(e)
                  /\ t \in {"PushEvent", "CreateEvent", "DeleteEvent"}
                  /\ ~RequiredMissing(e)
                  /\ e.size.k = "absent"
                  /\ e.ref_type.k = "absent") =>
                    AppendStep(DefaultLine(t) \o Render(e.name))]_vars

(***************************************************************************)
(* C10: the URL of the request is the base URL joined with the trimmed     *)
(* username, so that a username with surrounding whitespace gives the URL  *)
(* of its trimmed form.                                                    *)
(***************************************************************************)
C10_UrlUsesTrimmedUsername ==
    url # <<>> =>
        url = <<"https://api.github.com/users", "/">> \o Strip(username)
                  \o <<"/events">>

=============================================================================
